---- MODULE Spec2Model ----
(***************************************************************************)
(* RAG-MCQ-Generator: the question generation pipeline (chunker, analyzer, *)
(* synthesizer, balancer, facade) and the quiz session of App.tsx with the *)
(* QuestionDisplay component.                                              *)
(*                                                                         *)
(* Two implementations of AIQuestionGenerator are in the repository:       *)
(*   "firstN"   the per-chunk-quota generator (window 4, stride 2), whose  *)
(*              generateFromChunks pads and truncates to questionCount;    *)
(*   "bucketed" the difficulty-balanced generator (window 5, stride 3),    *)
(*              whose generateFromChunks slices per-difficulty buckets.    *)
(* Both are modelled; `variant` says which one is behind the facade.       *)
(*                                                                         *)
(* Text is modelled by what the regular expressions of the code see of it: *)
(* a text is the sequence of its fragments between sentence terminators,   *)
(* laid out as "f1. f2. f3.", and a fragment is a record                   *)
(*   len     its trimmed length in characters                              *)
(*   ws      how many characters text.replace(/\s+/g,' ') removes from it  *)
(*   term    0, or the id of the capitalized phrase it contains            *)
(*   meta    0, or the id of the concept meta-word it contains             *)
(*   stative whether it contains a copular/stative verb                    *)
(*   ind     its number of complexity-indicator matches                    *)
(*   over    whether it has more regex matches than push(...matches) can   *)
(*           take as arguments (the spread then throws a RangeError)       *)
(***************************************************************************)
EXTENDS Integers, Sequences, FiniteSets, TLC

VARIABLES
    \* ---- configuration
    variant,        \* which AIQuestionGenerator is behind the facade
    \* ---- one generation run (generate(text, questionCount))
    gpc,            \* position of the run
    gtext,          \* the text argument
    gcount,         \* the questionCount argument
    caller,         \* "facade" (generateQuestions) or "direct" (the class)
    config,         \* apiKey / provider of the AIQuestionGenerator instance
    chunks,         \* result of chunkDocument
    analyzed,       \* result of analyzeChunks
    aiResult,       \* what AIQuestionGenerator.generateQuestions returned
    remoteFailed,   \* the remote attempt of this run failed, and how
    localRan,       \* generateWithLocalAI was entered in this run
    result,         \* what the caller received
    \* ---- the session (App.tsx)
    quizState, questions, currentQuestionIndex, userAnswers,
    isProcessing, error, quizSettings,
    upload,         \* the pending handleFileUpload call, or NoUpload
    timers,         \* pending setTimeout callbacks of handleAnswer
    \* ---- QuestionDisplay component state
    showFeedback, canProceed, currentAnswer,
    proceedTimers,  \* pending setCanProceed(true) callbacks
    shownId         \* question.id the component state belongs to

gvars == <<gpc, gtext, gcount, caller, config, chunks, analyzed, aiResult,
           remoteFailed, localRan, result>>
svars == <<quizState, questions, currentQuestionIndex, userAnswers,
           isProcessing, error, quizSettings, upload, timers>>
dvars == <<showFeedback, canProceed, currentAnswer, proceedTimers, shownId>>
vars  == <<variant, gvars, svars, dvars>>

----------------------------------------------------------------------------
(* Bounds *)

MaxSentences == 3       \* fragments per text
MaxCount     == 5       \* largest questionCount tried (from MinCount up)
RngPeriod    == 3       \* Math.random() is a stream of this period
RandRes      == 3       \* Math.random() takes the values 0/RandRes .. (RandRes-1)/RandRes
MaxTimers    == 2       \* pending setTimeout callbacks of one kind
MaxClick     == 1       \* option indices 0..MaxClick are clicked

(* Program constants *)

MinCount        == 5    \* slider min
DefaultCount    == 15
MinTextLen      == 100
MinSentenceLen  == 20
MinFactLen      == 30
HardScore       == 3
MediumScore     == 1

Variants == {"firstN", "bucketed"}

Min(a, b) == IF a < b THEN a ELSE b
Max(a, b) == IF a > b THEN a ELSE b

RECURSIVE SumSeq(_)
SumSeq(s) == IF s = <<>> THEN 0 ELSE Head(s) + SumSeq(Tail(s))

\* Array.prototype.slice(from, to) with 0-based, end-exclusive indices
Slice(s, from, to) ==
    LET hi == Min(to, Len(s))
    IN  IF from >= hi THEN <<>> ELSE SubSeq(s, from + 1, hi)

\* [...new Set(s)]: first occurrences, order kept
RECURSIVE Dedup(_)
Dedup(s) ==
    IF s = <<>> THEN <<>>
    ELSE LET i == Len(s)
             d == Dedup(SubSeq(s, 1, i - 1))
         IN  IF \E j \in 1..Len(d) : d[j] = s[i] THEN d ELSE Append(d, s[i])

----------------------------------------------------------------------------
(* Texts *)

Frag(l, w, t, m, st, i, o) ==
    [len |-> l, ws |-> w, term |-> t, meta |-> m, stative |-> st, ind |-> i, over |-> o]

Plain    == Frag(34, 0, 0, 0, FALSE, 0, FALSE)  \* no capitals, no stative verb, no indicator
Spaced   == Frag(25, 5, 0, 0, FALSE, 1, FALSE)  \* 25 raw, 20 after whitespace collapse
FactCap  == Frag(35, 0, 2, 0, TRUE, 0, FALSE)   \* "Paris is ...": term, stative verb
MetaHard == Frag(32, 0, 1, 1, FALSE, 3, FALSE)  \* meta-word, "The", three indicators
LongFact == Frag(120, 0, 0, 0, TRUE, 1, FALSE)  \* longer than every truncation limit
Huge     == Frag(60, 0, 3, 0, FALSE, 0, TRUE)   \* too many matches to spread

\* the fragments the generated texts are made of
Fragments == {Spaced, FactCap, MetaHard, LongFact, Huge}

Texts == UNION { [1..n -> Fragments] : n \in 1..MaxSentences }

\* text.length for the layout "f1. f2. f3." preceded by `lead` blanks
TextLength(text, lead) ==
    lead + SumSeq([i \in 1..Len(text) |-> text[i].len]) + 2 * Len(text) - 1

\* text.trim().length
TrimLength(text, lead) == TextLength(text, lead) - lead

\* text.split(/[.!?]+/).filter(s => s.trim().length > 20)
Sentences(text) == SelectSeq(text, LAMBDA f : f.len > MinSentenceLen)

CleanSentencesRaw(text) == SelectSeq(text, LAMBDA f : f.len > MinSentenceLen)

\* the same after cleanText = text.replace(/\s+/g, ' ').trim()
CleanSentences(text) == SelectSeq(text, LAMBDA f : f.len - f.ws > MinSentenceLen)

\* length of a word matched by /\b[A-Z][a-z]+(?:\s+[A-Z][a-z]+)*\b/: term 1 is
\* a three-letter word such as "The", the others are longer
TermLength(t) == t + 2

----------------------------------------------------------------------------
(* Chunker *)

WindowSize(v)   == IF v = "firstN" THEN 4 ELSE 5
StrideNoOverlap(v) == IF v = "firstN" THEN 4 ELSE 5

Stride(v)       == IF v = "firstN" THEN 2 ELSE 3
MinChunkLen(v)  == IF v = "firstN" THEN 50 ELSE 100

\* sentences.slice(i, i + w).join('. ').trim().length: every fragment after the
\* first of the text keeps its leading blank, the join adds ". "
JoinedLength(sents) ==
    IF sents = <<>> THEN 0
    ELSE SumSeq([i \in 1..Len(sents) |-> sents[i].len]) + 3 * (Len(sents) - 1)

RECURSIVE chunkFrom(_, _, _)
chunkFrom(v, sentences, i) ==
    IF i >= Len(sentences) THEN <<>>
    ELSE LET w == Slice(sentences, i, i + WindowSize(v))
             rest == chunkFrom(v, sentences, i + Stride(v))
         IN  IF JoinedLength(w) > MinChunkLen(v)
             THEN <<[sents |-> w, start |-> i, length |-> JoinedLength(w)]>> \o rest
             ELSE rest

chunkDocument(v, text) == chunkFrom(v, Sentences(text), 0)

----------------------------------------------------------------------------
(* Chunk analyzer *)

TermsOf(chunk) ==
    LET with == SelectSeq(chunk.sents, LAMBDA f : f.term # 0)
    IN  [i \in 1..Len(with) |-> with[i].term]

MetasOf(chunk) ==
    LET with == SelectSeq(chunk.sents, LAMBDA f : f.meta # 0)
    IN  [i \in 1..Len(with) |-> with[i].meta]

extractKeyTerms(chunk) ==
    Slice(SelectSeq(Dedup(TermsOf(chunk)), LAMBDA t : TermLength(t) > 3), 0, 5)

extractConcepts(chunk) ==
    LET metas == [i \in 1..Len(MetasOf(chunk)) |-> <<"meta", MetasOf(chunk)[i]>>]
        terms == [i \in 1..Len(TermsOf(chunk)) |-> <<"term", TermsOf(chunk)[i]>>]
    IN  Slice(Dedup(metas \o terms), 0, 3)

extractFacts(chunk) ==
    Slice(SelectSeq(chunk.sents, LAMBDA f : f.len > MinFactLen /\ f.stative), 0, 3)

complexityScore(chunk) == SumSeq([i \in 1..Len(chunk.sents) |-> chunk.sents[i].ind])

assessDifficultyStrict(chunk) ==
    IF complexityScore(chunk) > HardScore THEN "hard"
    ELSE IF complexityScore(chunk) > MediumScore THEN "medium"
    ELSE "easy"

\* assessDifficulty(text) of the chunk analyzer
assessDifficulty(chunk) ==
    IF complexityScore(chunk) >= HardScore THEN "hard"
    ELSE IF complexityScore(chunk) >= MediumScore THEN "medium"
    ELSE "easy"

\* concepts.push(...matches) throws when matches is too long to spread
AnalysisThrows(cs) ==
    \E i \in 1..Len(cs) : \E j \in 1..Len(cs[i].sents) : cs[i].sents[j].over

analyzeChunks(cs) ==
    [i \in 1..Len(cs) |->
        [content    |-> cs[i],
         keyTerms   |-> extractKeyTerms(cs[i]),
         concepts   |-> extractConcepts(cs[i]),
         facts      |-> extractFacts(cs[i]),
         difficulty |-> assessDifficulty(cs[i])]]

----------------------------------------------------------------------------
(* Item synthesizer *)

\* the seeds of Math.random(): call number c returns seed[(c % RngPeriod) + 1] / RandRes
Seeds == [1..RngPeriod -> 0..(RandRes - 1)]
Draw(seed, c) == seed[(c % RngPeriod) + 1]

Item(id, kind, options, difficulty) ==
    [id |-> id, kind |-> kind, options |-> options, correctAnswer |-> 0,
     difficulty |-> difficulty]

PoolSize(v) == IF v = "firstN" THEN 4 ELSE 3

\* options[Math.floor(Math.random() * options.length)] of the pool of `type`
generateDistractor(v, type, r) == <<type, (r * PoolSize(v)) \div RandRes>>

Distractors(v, type, seed, c) ==
    << generateDistractor(v, type, Draw(seed, c)),
       generateDistractor(v, type, Draw(seed, c + 1)),
       generateDistractor(v, type, Draw(seed, c + 2)) >>

\* does the sentence contain the concept (a meta-word or a capitalized phrase)
Mentions(f, concept) ==
    \/ concept[1] = "meta" /\ f.meta = concept[2]
    \/ concept[1] = "term" /\ f.term = concept[2]

\* str.substring(0, limit) + (rawLength > limit ? '...' : ''), as a length
Truncated(trimLen, rawLen, limit) ==
    Min(trimLen, limit) + (IF rawLen > limit THEN 3 ELSE 0)

generateConceptAnswer(concept, chunk) ==
    LET hits == { i \in 1..Len(chunk.sents) : Mentions(chunk.sents[i], concept) }
    IN  IF hits = {}
        THEN <<"key concept phrase", 0>>
        ELSE LET i == CHOOSE k \in hits : \A j \in hits : k <= j
                 f == chunk.sents[i]
             IN  <<"sentence", Truncated(f.len, f.len + (IF i = 1 THEN 0 ELSE 2), 100)>>

generateInferenceAnswer(chunk) == <<"logical conclusion phrase", 0>>

ConceptItemShuffled(v, a, id, seed, c) ==
    Item(id, "concept",
         Distractors(v, "concept", seed, c) \o <<generateConceptAnswer(a.concepts[1], a.content)>>,
         a.difficulty)

\* the concept item of generateQuestionsFromChunk
ConceptItem(v, a, id, seed, c) ==
    Item(id, "concept",
         <<generateConceptAnswer(a.concepts[1], a.content)>> \o Distractors(v, "concept", seed, c),
         a.difficulty)

FactItem(v, a, id, seed, c) ==
    LET f == a.facts[1]
        shown == IF v = "firstN" THEN Truncated(f.len, f.len, 80) ELSE f.len
    IN  Item(id, "fact", <<<<"sentence", shown>>>> \o Distractors(v, "fact", seed, c),
             a.difficulty)

KeyTermItem(a, id) ==
    Item(id, "keyterm",
         << <<"keyterm option", 0>>, <<"keyterm option", 1>>,
            <<"keyterm option", 2>>, <<"keyterm option", 3>> >>,
         a.difficulty)

InferenceItem(v, a, id, seed, c) ==
    Item(id, "inference",
         <<generateInferenceAnswer(a.content)>> \o Distractors(v, "inference", seed, c),
         "hard")

GenericItemThreeOptions(a, id) ==
    Item(id, "generic",
         << <<"excerpt", Truncated(a.content.length, a.content.length, 100)>>,
            <<"generic option", 1>>, <<"generic option", 2>> >>,
         a.difficulty)

GenericItem(a, id) ==
    Item(id, "generic",
         << <<"excerpt", Truncated(a.content.length, a.content.length, 100)>>,
            <<"generic option", 1>>, <<"generic option", 2>>, <<"generic option", 3>> >>,
         a.difficulty)

RECURSIVE PadGenericSameId(_, _, _, _)
PadGenericSameId(qs, a, startId, maxQuestions) ==
    IF Len(qs) < maxQuestions
    THEN PadGenericSameId(Append(qs, GenericItem(a, startId)), a, startId, maxQuestions)
    ELSE qs

\* while (questions.length < maxQuestions) questions.push(generic item)
RECURSIVE PadGeneric(_, _, _, _)
PadGeneric(qs, a, startId, maxQuestions) ==
    IF Len(qs) < maxQuestions
    THEN PadGeneric(Append(qs, GenericItem(a, startId + Len(qs))), a, startId, maxQuestions)
    ELSE qs

\* The steps of generateQuestionsFromChunk. `s` is the list built so far and the
\* number of Math.random() calls made so far; each step returns the new pair.

\* if (chunk.concepts.length > 0 && questions.length < limit) push the concept item
AddConcept(v, a, startId, limit, seed, s) ==
    IF a.concepts # <<>> /\ Len(s.qs) < limit
    THEN [qs |-> Append(s.qs, ConceptItem(v, a, startId + Len(s.qs), seed, s.c)),
          c |-> s.c + 3]
    ELSE s

\* if (chunk.facts.length > 0 && questions.length < limit) push the fact item
AddFact(v, a, startId, limit, seed, s) ==
    IF a.facts # <<>> /\ Len(s.qs) < limit
    THEN [qs |-> Append(s.qs, FactItem(v, a, startId + Len(s.qs), seed, s.c)),
          c |-> s.c + 3]
    ELSE s

\* if (chunk.keyTerms.length > 0 && questions.length < limit) push the key term item
AddKeyTerm(a, startId, limit, s) ==
    IF a.keyTerms # <<>> /\ Len(s.qs) < limit
    THEN [qs |-> Append(s.qs, KeyTermItem(a, startId + Len(s.qs))), c |-> s.c]
    ELSE s

AddInferenceAnyDifficulty(v, a, startId, limit, seed, s) ==
    IF Len(s.qs) < limit
    THEN [qs |-> Append(s.qs, InferenceItem(v, a, startId + Len(s.qs), seed, s.c)),
          c |-> s.c + 3]
    ELSE s

\* if (chunk.difficulty === 'hard' && questions.length < limit) push the inference item
AddInference(v, a, startId, limit, seed, s) ==
    IF a.difficulty = "hard" /\ Len(s.qs) < limit
    THEN [qs |-> Append(s.qs, InferenceItem(v, a, startId + Len(s.qs), seed, s.c)),
          c |-> s.c + 3]
    ELSE s

\* the generic fill loop, on the pair
AddGeneric(a, startId, maxQuestions, s) ==
    [qs |-> PadGeneric(s.qs, a, startId, maxQuestions), c |-> s.c]

\* generateQuestionsFromChunk(chunk, startId, maxQuestions); `c` counts the
\* calls of Math.random() made so far. Returns the items and the new count.
\* The bucketed generator ignores maxQuestions: its concept item is pushed
\* whenever there is a concept (the list is empty there), its fact item below 2
\* items, its inference item below 3, and it has no key term or generic item.
generateQuestionsFromChunk(v, a, startId, maxQuestions, seed, c) ==
    IF v = "firstN"
    THEN AddGeneric(a, startId, maxQuestions,
           AddInference(v, a, startId, maxQuestions, seed,
             AddKeyTerm(a, startId, maxQuestions,
               AddFact(v, a, startId, maxQuestions, seed,
                 AddConcept(v, a, startId, maxQuestions, seed,
                            [qs |-> <<>>, c |-> c])))))
    ELSE AddInference(v, a, startId, 3, seed,
           AddFact(v, a, startId, 2, seed,
             AddConcept(v, a, startId, 1, seed, [qs |-> <<>>, c |-> c])))

----------------------------------------------------------------------------
(* Count / difficulty balancer *)

FillerItem(id) ==
    Item(id, "filler",
         << <<"filler option", 0>>, <<"filler option", 1>>,
            <<"filler option", 2>>, <<"filler option", 3>> >>,
         "easy")

\* while (finalQuestions.length < questionCount) finalQuestions.push(filler)
RECURSIVE PadFiller(_, _)
PadFiller(qs, questionCount) ==
    IF Len(qs) < questionCount
    THEN PadFiller(Append(qs, FillerItem(Len(qs) + 1)), questionCount)
    ELSE qs

questionsPerChunkOne(n, questionCount) == 1

\* Math.max(1, Math.floor(questionCount / Math.min(n, questionCount))); with
\* n = 0 the code computes Infinity and NaN, which the loop never reads
questionsPerChunk(n, questionCount) ==
    Max(1, questionCount \div Min(n, questionCount))

remainingQuestions(n, questionCount) ==
    questionCount - questionsPerChunk(n, questionCount) * Min(n, questionCount)

questionsToGenerateNoExtra(n, questionCount, i) == questionsPerChunk(n, questionCount)

\* questionsPerChunk + (i < remainingQuestions ? 1 : 0)
questionsToGenerate(n, questionCount, i) ==
    questionsPerChunk(n, questionCount)
    + (IF i < remainingQuestions(n, questionCount) THEN 1 ELSE 0)

RECURSIVE chunkLoop(_, _, _, _, _, _, _, _)

\* the loop body after generateQuestionsFromChunk returned g: keep at most
\* min(quota, questionCount - totalGenerated) items, advance the counters by
\* the number generated
chunkIteration(an, questionCount, i, qs, questionId, totalGenerated, g) ==
    [qs |-> qs \o Slice(g.qs, 0, Min(questionsToGenerate(Len(an), questionCount, i),
                                     questionCount - totalGenerated)),
     questionId |-> questionId + Len(g.qs),
     totalGenerated |-> totalGenerated + Len(g.qs),
     c |-> g.c]

\* the loop continued at chunk i from the counters `st`
chunkLoopFrom(an, questionCount, i, seed, st) ==
    chunkLoop(an, questionCount, i, st.qs, st.questionId, st.totalGenerated, seed, st.c)

\* one iteration, then the rest of the loop
chunkLoopBody(an, questionCount, i, qs, questionId, totalGenerated, seed, g) ==
    chunkLoopFrom(an, questionCount, i + 1, seed,
                  chunkIteration(an, questionCount, i, qs, questionId, totalGenerated, g))

\* for (i = 0; i < n && totalGenerated < questionCount; i++) ...
chunkLoop(an, questionCount, i, qs, questionId, totalGenerated, seed, c) ==
    IF i < Len(an) /\ totalGenerated < questionCount
    THEN chunkLoopBody(an, questionCount, i, qs, questionId, totalGenerated, seed,
             generateQuestionsFromChunk("firstN", an[i + 1], questionId,
                                        questionsToGenerate(Len(an), questionCount, i),
                                        seed, c))
    ELSE [qs |-> qs, questionId |-> questionId, c |-> c]

RECURSIVE topUp(_, _, _, _, _, _)

\* if (additionalQuestions.length > 0) push the first and continue, else break
topUpBody(an, questionCount, qs, questionId, seed, g) ==
    IF Len(g.qs) > 0
    THEN topUp(an, questionCount, Append(qs, g.qs[1]), questionId + 1, seed, g.c)
    ELSE qs

\* while (questions.length < questionCount && n > 0) draw a random chunk ...
topUp(an, questionCount, qs, questionId, seed, c) ==
    IF Len(qs) < questionCount /\ Len(an) > 0
    THEN topUpBody(an, questionCount, qs, questionId, seed,
             generateQuestionsFromChunk("firstN",
                                        an[((Draw(seed, c) * Len(an)) \div RandRes) + 1],
                                        questionId, 1, seed, c + 1))
    ELSE qs

RECURSIVE collectLoop(_, _, _, _, _, _, _)

\* questions.push(...chunkQuestions); questionId += chunkQuestions.length
collectLoopBody(an, questionCount, i, qs, questionId, seed, g) ==
    collectLoop(an, questionCount, i + 1, qs \o g.qs, questionId + Len(g.qs), seed, g.c)

\* for (const chunk of analyzedChunks) { if (questions.length >= questionCount) break; ... }
collectLoop(an, questionCount, i, qs, questionId, seed, c) ==
    IF i < Len(an) /\ Len(qs) < questionCount
    THEN collectLoopBody(an, questionCount, i, qs, questionId, seed,
             generateQuestionsFromChunk("bucketed", an[i + 1], questionId, 3, seed, c))
    ELSE qs

easyCount(questionCount)   == (questionCount * 4) \div 10
mediumCount(questionCount) == (questionCount * 4) \div 10
hardCount(questionCount)   == questionCount - easyCount(questionCount) - mediumCount(questionCount)

balanceQuestionDifficultyUncut(qs, easyN, mediumN, hardN) ==
    SelectSeq(qs, LAMBDA x : x.difficulty = "easy")
    \o SelectSeq(qs, LAMBDA x : x.difficulty = "medium")
    \o SelectSeq(qs, LAMBDA x : x.difficulty = "hard")

\* balanceQuestionDifficulty(questions, easyCount, mediumCount, hardCount)
balanceQuestionDifficulty(qs, easyN, mediumN, hardN) ==
    Slice(SelectSeq(qs, LAMBDA x : x.difficulty = "easy"), 0, easyN)
    \o Slice(SelectSeq(qs, LAMBDA x : x.difficulty = "medium"), 0, mediumN)
    \o Slice(SelectSeq(qs, LAMBDA x : x.difficulty = "hard"), 0, hardN)

\* the top-up loop, started from what the per-chunk loop left
topUpAfter(an, questionCount, seed, main) ==
    topUp(an, questionCount, main.qs, main.questionId, seed, main.c)

generateFromChunks(v, an, questionCount, seed) ==
    IF v = "firstN"
    THEN PadFiller(Slice(topUpAfter(an, questionCount, seed,
                                    chunkLoop(an, questionCount, 0, <<>>, 1, 0, seed, 0)),
                         0, questionCount),
                   questionCount)
    ELSE Slice(balanceQuestionDifficulty(collectLoop(an, questionCount, 0, <<>>, 1, seed, 0),
                                         easyCount(questionCount),
                                         mediumCount(questionCount),
                                         hardCount(questionCount)),
               0, questionCount)

----------------------------------------------------------------------------
(* Simplified generator and facade (questionGenerator.ts) *)

SimpleItem(id, f) ==
    Item(id, "simple",
         << <<"sentence", Truncated(f.len - f.ws, f.len - f.ws, 100)>>,
            <<"simple option", 1>>, <<"simple option", 2>>, <<"simple option", 3>> >>,
         "medium")

SimpleFillItem(id) ==
    Item(id, "simplefill",
         << <<"main focus option", 0>>, <<"main focus option", 1>>,
            <<"main focus option", 2>>, <<"main focus option", 3>> >>,
         "easy")

PadSimpleNone(qs, questionCount) == qs

\* while (questions.length < questionCount) questions.push(general item)
RECURSIVE PadSimple(_, _)
PadSimple(qs, questionCount) ==
    IF Len(qs) < questionCount
    THEN PadSimple(Append(qs, SimpleFillItem(Len(qs) + 1)), questionCount)
    ELSE qs

generateFallbackQuestions(text, questionCount) ==
    LET sentences == CleanSentences(text)
        basic == [i \in 1..Min(questionCount, Len(sentences)) |-> SimpleItem(i, sentences[i])]
    IN  Slice(PadSimple(basic, questionCount), 0, questionCount)

\* generateWithLocalAI: chunk, analyze, generate; raised says that it threw
generateWithLocalAI(v, text, questionCount, seed) ==
    LET cs == chunkDocument(v, text)
    IN  IF AnalysisThrows(cs)
        THEN [raised |-> TRUE, qs |-> <<>>]
        ELSE [raised |-> FALSE,
              qs |-> generateFromChunks(v, analyzeChunks(cs), questionCount, seed)]

\* the try / catch of generateQuestions around generateQuestionsWithAI
FacadeResult(r, text, questionCount) ==
    IF r.raised THEN generateFallbackQuestions(text, questionCount)
    ELSE IF Len(r.qs) > 0 THEN r.qs
    ELSE generateFallbackQuestions(text, questionCount)

\* generateQuestions(text, questionCount) of questionGenerator.ts; the facade
\* constructs the generator without key, so the local pipeline runs
generateQuestions(v, text, questionCount, seed) ==
    FacadeResult(generateWithLocalAI(v, text, questionCount, seed), text, questionCount)

----------------------------------------------------------------------------
(* Remote provider *)

Providers == {"local", "openai", "anthropic", "gemini"}

\* what the awaited provider call does: it throws (the shipped callOpenAI,
\* callAnthropic and callGemini always do), it resolves with a response text,
\* or it never settles (the await has no timeout and no abort)
RemoteOutcomes == {"throws", "malformed", "noQuestions", "ok", "pending"}
RemoteFailures == {"throws", "malformed", "noQuestions"}

RemoteItem(id) ==
    Item(id, "remote",
         << <<"remote option", 0>>, <<"remote option", 1>>,
            <<"remote option", 2>>, <<"remote option", 3>> >>,
         "easy")

\* try { return JSON.parse(response).questions || [] } catch { return [] }
parseAIResponse(response, questionCount) ==
    IF response = "ok" THEN [i \in 1..questionCount |-> RemoteItem(i)]
    ELSE <<>>

----------------------------------------------------------------------------
(* Generation run: one call of the facade, or of AIQuestionGenerator itself *)

LocalConfig == [apiKey |-> FALSE, provider |-> "local"]

DefaultSettings == [questionCount |-> DefaultCount, mode |-> "immediate"]

NoTimers == [advance |-> 0, results |-> 0]

\* the state of App and QuestionDisplay after construction
SessionInit ==
    /\ quizState = "upload"
    /\ questions = <<>>
    /\ currentQuestionIndex = 0
    /\ userAnswers = <<>>
    /\ isProcessing = FALSE
    /\ error = "null"
    /\ quizSettings = DefaultSettings
    /\ upload = <<>>
    /\ timers = NoTimers
    /\ showFeedback = FALSE
    /\ canProceed = FALSE
    /\ currentAnswer = <<>>
    /\ proceedTimers = 0
    /\ shownId = 0

GenIdle ==
    /\ gpc = "idle"
    /\ gtext = <<>>
    /\ gcount = 0
    /\ caller = "none"
    /\ config = LocalConfig
    /\ chunks = <<>>
    /\ analyzed = <<>>
    /\ aiResult = <<>>
    /\ remoteFailed = "none"
    /\ localRan = FALSE
    /\ result = <<>>

GenInit ==
    /\ variant \in Variants
    /\ gpc = "start"
    /\ gtext \in Texts
    /\ gcount \in MinCount..MaxCount
    /\ caller = "none"
    /\ config = LocalConfig
    /\ chunks = <<>>
    /\ analyzed = <<>>
    /\ aiResult = <<>>
    /\ remoteFailed = "none"
    /\ localRan = FALSE
    /\ result = <<>>
    /\ SessionInit

\* generateQuestionsWithAI: new AIQuestionGenerator() without key or provider
FacadeCall ==
    /\ gpc = "start"
    /\ caller' = "facade"
    /\ config' = LocalConfig
    /\ gpc' = "dispatch"
    /\ UNCHANGED <<variant, gtext, gcount, chunks, analyzed, aiResult, remoteFailed,
                   localRan, result, svars, dvars>>

\* new AIQuestionGenerator(apiKey, provider).generateQuestions(text, questionCount),
\* called with a key (the call without key is the facade's)
DirectCall ==
    /\ gpc = "start"
    /\ \E p \in Providers :
          config' = [apiKey |-> TRUE, provider |-> p]
    /\ caller' = "direct"
    /\ gpc' = "dispatch"
    /\ UNCHANGED <<variant, gtext, gcount, chunks, analyzed, aiResult, remoteFailed,
                   localRan, result, svars, dvars>>

\* AIQuestionGenerator.generateQuestions: remote if key and provider, else local
AIGenerateQuestions ==
    /\ gpc = "dispatch"
    /\ gpc' = IF config.apiKey /\ config.provider # "local" THEN "remote" ELSE "local"
    /\ UNCHANGED <<variant, gtext, gcount, caller, config, chunks, analyzed, aiResult,
                   remoteFailed, localRan, result, svars, dvars>>

\* generateWithAI: the call throws and the catch runs the local pipeline, or
\* the response is handed to parseAIResponse and its result returned
generateWithAI ==
    /\ gpc = "remote"
    /\ \E o \in RemoteOutcomes :
          /\ remoteFailed' = IF o \in RemoteFailures THEN o ELSE "none"
          /\ IF o = "throws"
             THEN /\ gpc' = "local"
                  /\ UNCHANGED aiResult
             ELSE IF o = "pending"
             THEN /\ gpc' = "awaiting"
                  /\ UNCHANGED aiResult
             ELSE /\ gpc' = "returned"
                  /\ aiResult' = parseAIResponse(o, gcount)
    /\ UNCHANGED <<variant, gtext, gcount, caller, config, chunks, analyzed,
                   localRan, result, svars, dvars>>

\* generateWithLocalAI, step 1
LocalChunk ==
    /\ gpc = "local"
    /\ localRan' = TRUE
    /\ chunks' = chunkDocument(variant, gtext)
    /\ gpc' = "analyze"
    /\ UNCHANGED <<variant, gtext, gcount, caller, config, analyzed, aiResult,
                   remoteFailed, result, svars, dvars>>

\* generateWithLocalAI, step 2
LocalAnalyze ==
    /\ gpc = "analyze"
    /\ IF AnalysisThrows(chunks)
       THEN /\ gpc' = "raised"
            /\ UNCHANGED analyzed
       ELSE /\ gpc' = "generate"
            /\ analyzed' = analyzeChunks(chunks)
    /\ UNCHANGED <<variant, gtext, gcount, caller, config, chunks, aiResult,
                   remoteFailed, localRan, result, svars, dvars>>

\* generateWithLocalAI, step 3
LocalGenerate ==
    /\ gpc = "generate"
    /\ \E seed \in Seeds :
          aiResult' = generateFromChunks(variant, analyzed, gcount, seed)
    /\ gpc' = "returned"
    /\ UNCHANGED <<variant, gtext, gcount, caller, config, chunks, analyzed,
                   remoteFailed, localRan, result, svars, dvars>>

\* generateQuestions of questionGenerator.ts returns
FacadeReturn ==
    /\ caller = "facade"
    /\ gpc \in {"returned", "raised"}
    /\ result' = FacadeResult([raised |-> gpc = "raised", qs |-> aiResult], gtext, gcount)
    /\ gpc' = "done"
    /\ UNCHANGED <<variant, gtext, gcount, caller, config, chunks, analyzed, aiResult,
                   remoteFailed, localRan, svars, dvars>>

\* AIQuestionGenerator.generateQuestions returns to a direct caller, or throws
DirectReturn ==
    /\ caller = "direct"
    /\ gpc \in {"returned", "raised"}
    /\ IF gpc = "raised"
       THEN gpc' = "threw" /\ UNCHANGED result
       ELSE gpc' = "done" /\ result' = aiResult
    /\ UNCHANGED <<variant, gtext, gcount, caller, config, chunks, analyzed, aiResult,
                   remoteFailed, localRan, svars, dvars>>

GenNext ==
    \/ FacadeCall
    \/ DirectCall
    \/ AIGenerateQuestions
    \/ generateWithAI
    \/ LocalChunk
    \/ LocalAnalyze
    \/ LocalGenerate
    \/ FacadeReturn
    \/ DirectReturn

SpecGen == GenInit /\ [][GenNext]_vars

\* every run is allowed to go on while one of its steps is enabled
SpecGenLive == SpecGen /\ WF_vars(GenNext)

----------------------------------------------------------------------------
(* The facade as a function: generateQuestions(text, questionCount) applied  *)
(* to one input, for every questionCount from 1 up to the slider minimum    *)

\* the generated texts, the empty text, and three plain sentences
FacadeTexts == Texts \cup { <<>>, <<Plain, Plain, Plain>> }

FacadeInit ==
    /\ variant \in Variants
    /\ gpc = "apply"
    /\ gtext \in FacadeTexts
    /\ gcount \in 1..MinCount
    /\ caller = "facade"
    /\ config = LocalConfig
    /\ chunks = <<>>
    /\ analyzed = <<>>
    /\ aiResult = <<>>
    /\ remoteFailed = "none"
    /\ localRan = FALSE
    /\ result = <<>>
    /\ SessionInit

FacadeApply ==
    /\ gpc = "apply"
    /\ \E seed \in Seeds : result' = generateQuestions(variant, gtext, gcount, seed)
    /\ gpc' = "applied"
    /\ UNCHANGED <<variant, gtext, gcount, caller, config, chunks, analyzed, aiResult,
                   remoteFailed, localRan, svars, dvars>>

SpecFacade == FacadeInit /\ [][FacadeApply]_vars

----------------------------------------------------------------------------
(* Session: App.tsx and the QuestionDisplay component *)

Modes == {"immediate", "end"}

\* leading blanks of an uploaded text file (extractTextFromFile does not trim
\* a .txt file)
Leads == {0, 1}

\* the texts uploaded in a session: 99 characters; 100 characters; three
\* plain sentences; a hard chunk with concepts and facts
SessionTexts ==
    { <<Plain, FactCap, Spaced>>,
      <<FactCap, FactCap, Spaced>>,
      <<Plain, Plain, Plain>>,
      <<FactCap, MetaHard, Plain>> }

\* a file whose text cannot be extracted (extractTextFromFile throws)
Unreadable == [text |-> <<>>, lead |-> 0, extracts |-> FALSE]

Files == { [text |-> t, lead |-> l, extracts |-> TRUE] : t \in SessionTexts, l \in Leads }
         \cup {Unreadable}

\* the seed of the generation runs of a session: Math.random() returns 0
SessionSeeds == { [i \in 1..RngPeriod |-> 0] }

TooShortError    == "Document is too short or could not be processed"
NoQuestionsError == "Could not generate questions from this document"
ExtractError     == "Could not extract text from file"

\* !text || text.trim().length < 100
TooShortUntrimmed(text, lead) == Len(text) = 0 \/ TextLength(text, lead) < MinTextLen
TooShort(text, lead) == Len(text) = 0 \/ TrimLength(text, lead) < MinTextLen

\* the component is rendered: quizState === 'quiz' && questions.length > 0
Mounted == quizState = "quiz" /\ Len(questions) > 0

\* questions[currentQuestionIndex] is undefined: rendering QuestionDisplay
\* throws on question.id and React unmounts the application
Crashed == Mounted /\ currentQuestionIndex >= Len(questions)

Put(f, k, v) == [i \in (DOMAIN f) \cup {k} |-> IF i = k THEN v ELSE f[i]]

\* state of a freshly mounted QuestionDisplay showing question id `qid`, or of
\* no component (qid = 0)
FreshDisplay(qid) ==
    /\ showFeedback' = FALSE
    /\ canProceed' = FALSE
    /\ currentAnswer' = <<>>
    /\ shownId' = qid

\* what rendering does to the component after App's state became
\* (state, qs, index): unmount, mount, the effect on [question.id], or nothing
Render(state, qs, index) ==
    IF ~(state = "quiz" /\ Len(qs) > 0)
    THEN FreshDisplay(0) /\ proceedTimers' = 0
    ELSE IF index >= Len(qs)
    THEN UNCHANGED dvars
    ELSE IF ~Mounted
    THEN FreshDisplay(qs[index + 1].id) /\ proceedTimers' = 0
    ELSE IF qs[index + 1].id # shownId
    THEN FreshDisplay(qs[index + 1].id) /\ UNCHANGED proceedTimers
    ELSE UNCHANGED dvars

\* setQuestions(exactQuestions); setQuizState('quiz');
\* setCurrentQuestionIndex(0); setUserAnswers({}) and the render that follows
EnterQuizDropFirst(qs) ==
    /\ questions' = Tail(qs)
    /\ quizState' = "quiz"
    /\ currentQuestionIndex' = 0
    /\ userAnswers' = <<>>
    /\ Render("quiz", Tail(qs), 0)

EnterQuiz(qs) ==
    /\ questions' = qs
    /\ quizState' = "quiz"
    /\ currentQuestionIndex' = 0
    /\ userAnswers' = <<>>
    /\ Render("quiz", qs, 0)

UploadStartUnguarded ==
    /\ quizState = "upload"
    /\ Len(upload) < 2
    /\ \E file \in Files, count \in MinCount..MaxCount, mode \in Modes :
          /\ upload' = Append(upload,
                              [text |-> file.text, lead |-> file.lead,
                               extracts |-> file.extracts,
                               settings |-> [questionCount |-> count, mode |-> mode]])
          /\ quizSettings' = [questionCount |-> count, mode |-> mode]
    /\ isProcessing' = TRUE
    /\ error' = "null"
    /\ UNCHANGED <<variant, gvars, quizState, questions, currentQuestionIndex,
                   userAnswers, timers, dvars>>

\* the file input or the drop zone of FileUpload, enabled only while
\* isProcessing is false, and handleFileUpload up to its first await
UploadStart ==
    /\ quizState = "upload"
    /\ ~isProcessing
    /\ \E file \in Files, count \in MinCount..MaxCount, mode \in Modes :
          /\ upload' = Append(upload,
                              [text |-> file.text, lead |-> file.lead,
                               extracts |-> file.extracts,
                               settings |-> [questionCount |-> count, mode |-> mode]])
          /\ quizSettings' = [questionCount |-> count, mode |-> mode]
    /\ isProcessing' = TRUE
    /\ error' = "null"
    /\ UNCHANGED <<variant, gvars, quizState, questions, currentQuestionIndex,
                   userAnswers, timers, dvars>>

\* handleFileUpload after its awaits: the length check, generateQuestions, the
\* state updates, the catch and the finally
UploadFinish ==
    /\ upload # <<>>
    /\ ~Crashed
    /\ LET u == upload[1]
           count == u.settings.questionCount
       IN  IF ~u.extracts
           THEN /\ error' = ExtractError
                /\ UNCHANGED <<quizState, questions, currentQuestionIndex, userAnswers,
                               dvars>>
           ELSE IF TooShort(u.text, u.lead)
           THEN /\ error' = TooShortError
                /\ UNCHANGED <<quizState, questions, currentQuestionIndex, userAnswers,
                               dvars>>
           ELSE \E seed \in SessionSeeds :
                \E generatedQuestions \in {generateQuestions(variant, u.text, count, seed)} :
                  LET exactQuestions == Slice(generatedQuestions, 0, count)
                  IN  IF Len(generatedQuestions) = 0
                      THEN /\ error' = NoQuestionsError
                           /\ UNCHANGED <<quizState, questions, currentQuestionIndex,
                                          userAnswers, dvars>>
                      ELSE EnterQuiz(exactQuestions) /\ UNCHANGED error
    /\ isProcessing' = FALSE
    /\ upload' = Tail(upload)
    /\ UNCHANGED <<variant, gvars, quizSettings, timers>>

handleAnswerNextIndex(answerIndex) ==
    /\ userAnswers' = Put(userAnswers, currentQuestionIndex + 1, answerIndex)
    /\ IF currentQuestionIndex < Len(questions) - 1
       THEN timers' = [timers EXCEPT !.advance = @ + 1]
       ELSE timers' = [timers EXCEPT !.results = @ + 1]
    /\ UNCHANGED <<quizState, questions, currentQuestionIndex, isProcessing, error,
                   quizSettings, upload>>

\* handleAnswer(answerIndex) of App.tsx
handleAnswer(answerIndex) ==
    /\ userAnswers' = Put(userAnswers, currentQuestionIndex, answerIndex)
    /\ IF currentQuestionIndex < Len(questions) - 1
       THEN timers' = [timers EXCEPT !.advance = @ + 1]
       ELSE timers' = [timers EXCEPT !.results = @ + 1]
    /\ UNCHANGED <<quizState, questions, currentQuestionIndex, isProcessing, error,
                   quizSettings, upload>>

\* an option button is enabled
OptionEnabled ==
    /\ Mounted
    /\ ~Crashed
    /\ ~(showFeedback /\ quizSettings.mode = "immediate")
    /\ ~(currentAnswer # <<>> /\ quizSettings.mode = "end")

\* handleAnswerClick(answerIndex) of QuestionDisplay
handleAnswerClick ==
    /\ OptionEnabled
    /\ \E answerIndex \in 0..MaxClick :
          IF currentAnswer # <<>>
          THEN UNCHANGED <<svars, dvars>>
          ELSE /\ currentAnswer' = <<answerIndex>>
               /\ IF quizSettings.mode = "immediate"
                  THEN /\ showFeedback' = TRUE
                       /\ proceedTimers < MaxTimers
                       /\ proceedTimers' = proceedTimers + 1
                       /\ UNCHANGED <<svars, canProceed, shownId>>
                  ELSE /\ timers.advance < MaxTimers /\ timers.results < MaxTimers
                       /\ handleAnswer(answerIndex)
                       /\ UNCHANGED <<showFeedback, canProceed, proceedTimers, shownId>>
    /\ UNCHANGED <<variant, gvars>>

\* setTimeout(() => setCanProceed(true), 1000) fires
ProceedTimerFires ==
    /\ proceedTimers > 0
    /\ ~Crashed
    /\ proceedTimers' = proceedTimers - 1
    /\ canProceed' = TRUE
    /\ UNCHANGED <<variant, gvars, svars, showFeedback, currentAnswer, shownId>>

\* the Next button is rendered
NextEnabled ==
    /\ Mounted
    /\ ~Crashed
    /\ quizSettings.mode = "immediate"
    /\ canProceed
    /\ currentAnswer # <<>>

handleNextFirstOption ==
    /\ NextEnabled
    /\ timers.advance < MaxTimers /\ timers.results < MaxTimers
    /\ handleAnswer(0)
    /\ UNCHANGED <<variant, gvars, dvars>>

\* handleNext of QuestionDisplay
handleNext ==
    /\ NextEnabled
    /\ timers.advance < MaxTimers /\ timers.results < MaxTimers
    /\ handleAnswer(currentAnswer[1])
    /\ UNCHANGED <<variant, gvars, dvars>>

\* setTimeout(() => setCurrentQuestionIndex(prev => prev + 1), delay) fires
AdvanceTimerFires ==
    /\ timers.advance > 0
    /\ ~Crashed
    /\ timers' = [timers EXCEPT !.advance = @ - 1]
    /\ currentQuestionIndex' = currentQuestionIndex + 1
    /\ Render(quizState, questions, currentQuestionIndex + 1)
    /\ UNCHANGED <<variant, gvars, quizState, questions, userAnswers, isProcessing,
                   error, quizSettings, upload>>

\* setTimeout(() => setQuizState('results'), delay) fires
ResultsTimerFires ==
    /\ timers.results > 0
    /\ ~Crashed
    /\ timers' = [timers EXCEPT !.results = @ - 1]
    /\ quizState' = "results"
    /\ Render("results", questions, currentQuestionIndex)
    /\ UNCHANGED <<variant, gvars, questions, currentQuestionIndex, userAnswers,
                   isProcessing, error, quizSettings, upload>>

restartQuizKeepsSettings ==
    /\ quizState = "results"
    /\ quizState' = "upload"
    /\ questions' = <<>>
    /\ currentQuestionIndex' = 0
    /\ userAnswers' = <<>>
    /\ error' = "null"
    /\ Render("upload", <<>>, 0)
    /\ UNCHANGED <<variant, gvars, isProcessing, upload, timers, quizSettings>>

\* restartQuiz, the onRestart of the Results page
restartQuiz ==
    /\ quizState = "results"
    /\ quizState' = "upload"
    /\ questions' = <<>>
    /\ currentQuestionIndex' = 0
    /\ userAnswers' = <<>>
    /\ error' = "null"
    /\ quizSettings' = DefaultSettings
    /\ Render("upload", <<>>, 0)
    /\ UNCHANGED <<variant, gvars, isProcessing, upload, timers>>

Init ==
    /\ variant \in Variants
    /\ GenIdle
    /\ SessionInit

Next ==
    \/ UploadStart
    \/ UploadFinish
    \/ handleAnswerClick
    \/ ProceedTimerFires
    \/ handleNext
    \/ AdvanceTimerFires
    \/ ResultsTimerFires
    \/ restartQuiz

Spec == Init /\ [][Next]_vars

\* the user answers and confirms whatever is presented, and pending timers fire
SpecLive ==
    /\ Spec
    /\ WF_vars(handleAnswerClick)
    /\ WF_vars(ProceedTimerFires)
    /\ WF_vars(handleNext)
    /\ WF_vars(AdvanceTimerFires)
    /\ WF_vars(ResultsTimerFires)

----------------------------------------------------------------------------
(* Properties *)

FacadeDone == gpc = "done" /\ caller = "facade"

PairwiseDistinct(seq) ==
    \A i, j \in 1..Len(seq) : i # j => seq[i] # seq[j]

KindsOf(qs) == { qs[i].kind : i \in 1..Len(qs) }

\* C1: for every questionCount in [5,30] and every text of at least 100
\* characters with at least one sentence, generate returns exactly
\* questionCount items, whichever generator variant is behind the facade.
C1_ExactCount ==
    ( /\ FacadeDone
      /\ gcount >= 5 /\ gcount <= 30
      /\ TextLength(gtext, 0) >= 100
      /\ \E i \in 1..Len(gtext) : gtext[i].len > 20 )
    => Len(result) = gcount

\* C2: every item returned by generate has exactly 4 options and
\* correctAnswer = 0, hence correctAnswer in [0,3].
C2_FourOptionsAnswerZero ==
    FacadeDone =>
        \A i \in 1..Len(result) :
            /\ Len(result[i].options) = 4
            /\ result[i].correctAnswer = 0
            /\ result[i].correctAnswer \in 0..3

\* C2 witness: generate returned typed items together with generic-fallback items.
C2_Witness ==
    /\ FacadeDone
    /\ {"concept", "fact", "keyterm", "generic"} \subseteq KindsOf(result)

\* C3: the four options of every returned item are pairwise distinct, for
\* every outcome of the random draws of the distractors.
C3_DistinctOptions ==
    FacadeDone =>
        \A i \in 1..Len(result) : PairwiseDistinct(result[i].options)

\* C4: within one generation run all returned items have pairwise distinct
\* positive integer ids.
C4_UniqueIds ==
    FacadeDone =>
        /\ \A i \in 1..Len(result) : result[i].id \in Nat \ {0}
        /\ PairwiseDistinct([i \in 1..Len(result) |-> result[i].id])

\* C4 witness: a run over two chunks returned typed and generic items.
C4_Witness ==
    /\ FacadeDone
    /\ Len(chunks) = 2
    /\ Len(result) = gcount
    /\ {"fact", "generic"} \subseteq KindsOf(result)

\* the step in which a pending handleFileUpload call finishes
UploadFinishes == upload # <<>> /\ upload' = <<>>

\* C5: a generation request whose text has fewer than 100 characters after
\* trimming (99 included) fails with the insufficient-content error and leaves
\* quizState (upload stays upload), questions, answers and currentIndex as
\* they were; a text of 100 characters is accepted and yields questions.
C5_ShortTextRejected ==
    [][ (UploadFinishes /\ upload[1].extracts) =>
          LET n == TextLength(upload[1].text, upload[1].lead) - upload[1].lead
          IN  /\ n <= 99 =>
                    /\ error' = TooShortError
                    /\ UNCHANGED <<quizState, questions, currentQuestionIndex, userAnswers>>
              /\ n >= 100 =>
                    /\ error' = "null"
                    /\ quizState' = "quiz"
                    /\ Len(questions') > 0 ]_vars

\* C5 witness: the 99-character text was rejected in the upload state (it is
\* the only text of the session shorter than 100 characters).
C5_Witness ==
    /\ error = TooShortError
    /\ upload = <<>>
    /\ quizState = "upload"
    /\ questions = <<>>

\* C6: whenever the chunk pipeline raises or returns zero items, generate
\* returns the simplified generator's output: exactly questionCount items, the
\* first min(questionCount, sentences longer than 20 characters) being
\* sentence items of difficulty medium, the others the generic easy item.
C6_FallbackShape ==
    [][ (caller = "facade" /\ gpc # "done" /\ gpc' # gpc
           /\ (gpc = "raised" \/ (gpc = "returned" /\ Len(aiResult) = 0))) =>
          LET n == Cardinality({ i \in 1..Len(gtext) : gtext[i].len - gtext[i].ws > 20 })
              k == IF gcount < n THEN gcount ELSE n
          IN  /\ gpc' = "done"
              /\ Len(result') = gcount
              /\ \A i \in 1..Len(result') :
                    IF i <= k
                    THEN result'[i].kind = "simple" /\ result'[i].difficulty = "medium"
                    ELSE result'[i].kind = "simplefill" /\ result'[i].difficulty = "easy" ]_vars

\* C6 witness: the facade returned sentence items padded with generic items
\* although the text has a fragment that only the uncleaned split retains.
C6_Witness ==
    /\ FacadeDone
    /\ aiResult = <<>>
    /\ {"simple", "simplefill"} \subseteq KindsOf(result)
    /\ \E i \in 1..Len(gtext) : gtext[i] = Spaced

\* C7: with a remote provider configured, every failure of the remote attempt
\* (call error, unparsable response, response without questions) results in
\* the local chunk pipeline being run; it never yields an empty list.
C7_RemoteFailureRunsLocal ==
    (gpc = "done" /\ caller = "direct" /\ remoteFailed # "none")
    => (localRan /\ Len(result) > 0)

\* C8: quizState changes only along upload -> quiz, quiz -> results and
\* results -> upload.
C8_LinearTransitions ==
    [][ quizState' # quizState =>
          <<quizState, quizState'>> \in
              { <<"upload", "quiz">>, <<"quiz", "results">>, <<"results", "upload">> } ]_vars

\* C9: during a quiz currentIndex never decreases, changes only by +1, always
\* satisfies 0 <= currentIndex < len(questions), and quizState changes from
\* quiz to results only after the last question has been answered.
C9_IndexStepsInRange ==
    /\ [](quizState = "quiz" =>
            (currentQuestionIndex >= 0 /\ currentQuestionIndex < Len(questions)))
    /\ [][ (quizState = "quiz" /\ quizState' = "quiz" /\ questions' = questions) =>
             currentQuestionIndex' \in {currentQuestionIndex, currentQuestionIndex + 1} ]_vars
    /\ [][ (quizState = "quiz" /\ quizState' = "results") =>
             (Len(questions) - 1) \in DOMAIN userAnswers ]_vars

\* C10: every key of answers is an index i with 0 <= i < len(questions).
C10_AnswerKeysInRange ==
    \A k \in DOMAIN userAnswers : k >= 0 /\ k < Len(questions)

\* C10 witness: the last of at least two questions has an answer recorded.
C10_Witness ==
    /\ Len(questions) >= 2
    /\ (Len(questions) - 1) \in DOMAIN userAnswers

----------------------------------------------------------------------------
(* Answering, restart, quiz entry, processing flag *)

\* the step in which handleAnswer records an answer
RecordsAnswer == userAnswers' # userAnswers /\ DOMAIN userAnswers' # {}

\* C11: in mode=end the step that records an answer is also the step that
\* advances currentIndex by one or, on the last question, moves quizState to
\* results: no further event lies in between.
C11_EndAdvancesAtOnce ==
    [][ (Mounted /\ quizSettings.mode = "end" /\ RecordsAnswer) =>
          IF currentQuestionIndex < Len(questions) - 1
          THEN currentQuestionIndex' = currentQuestionIndex + 1
          ELSE quizState' = "results" ]_vars

\* the step in which the user selects an option of the shown question
SelectsOption == currentAnswer = <<>> /\ currentAnswer' # <<>>

\* C12: in mode=immediate selecting an option changes neither currentIndex nor
\* quizState and does not yet offer the proceed confirmation; currentIndex and
\* quizState change only once the shown question has been confirmed (its
\* answer is recorded).
C12_ImmediateNeedsProceed ==
    [][ (Mounted /\ ~Crashed /\ quizSettings.mode = "immediate") =>
          /\ SelectsOption =>
                /\ currentQuestionIndex' = currentQuestionIndex
                /\ quizState' = quizState
                /\ ~NextEnabled'
          /\ (currentQuestionIndex' # currentQuestionIndex \/ quizState' # quizState) =>
                currentQuestionIndex \in DOMAIN userAnswers ]_vars

\* C13: an answer is final. A recorded answers[i] keeps its value as long as
\* the quiz lasts, the selection of the shown question never changes once
\* made, and the value recorded is that selection (the first option clicked).
C13_AnswerFinal ==
    [][ /\ \A i \in DOMAIN userAnswers :
              DOMAIN userAnswers' # {} =>
                  (i \in DOMAIN userAnswers' /\ userAnswers'[i] = userAnswers[i])
        /\ (currentAnswer # <<>> /\ currentAnswer' # <<>>) => currentAnswer' = currentAnswer
        /\ RecordsAnswer =>
              /\ currentAnswer' # <<>>
              /\ userAnswers'[currentQuestionIndex] = currentAnswer'[1] ]_vars

\* C13 witness: two questions were answered differently and the second one,
\* a wrong option, is still shown with its selection.
C13_Witness ==
    /\ Mounted
    /\ currentQuestionIndex = 1
    /\ {0, 1} \subseteq DOMAIN userAnswers
    /\ userAnswers[0] = 0
    /\ userAnswers[1] = 1
    /\ currentAnswer = <<1>>

\* C14: restart() from results yields the initial session state: quizState
\* upload, questions empty, answers empty, currentQuestionIndex 0, error
\* cleared and settings back to questionCount 15, mode immediate.
C14_RestartResets ==
    [][ (quizState = "results" /\ quizState' = "upload") =>
          /\ questions' = <<>>
          /\ userAnswers' = <<>>
          /\ currentQuestionIndex' = 0
          /\ error' = "null"
          /\ quizSettings' = DefaultSettings ]_vars

\* restart has acted: the page is upload again while a callback scheduled
\* during the quiz is still pending, and the session fields are the initial ones
C14_Witness ==
    /\ quizState = "upload"
    /\ timers # NoTimers
    /\ questions = <<>>
    /\ userAnswers = <<>>
    /\ currentQuestionIndex = 0
    /\ error = "null"
    /\ quizSettings = DefaultSettings
    /\ ~isProcessing

\* C15: the session enters quiz only as the effect of a generation that
\* succeeded with a non-empty list; at that step questions is the generated
\* list cut to questionCount, currentQuestionIndex is 0 and answers is empty.
C15_QuizOnlyFromGeneration ==
    [][ (quizState # "quiz" /\ quizState' = "quiz") =>
          /\ upload # <<>>
          /\ isProcessing
          /\ upload[1].extracts
          /\ ~TooShort(upload[1].text, upload[1].lead)
          /\ \E seed \in SessionSeeds :
             \E generatedQuestions \in {generateQuestions(variant, upload[1].text,
                                            upload[1].settings.questionCount, seed)} :
                /\ Len(generatedQuestions) > 0
                /\ questions' = Slice(generatedQuestions, 0,
                                      upload[1].settings.questionCount)
          /\ Len(questions') \in 1..quizSettings'.questionCount
          /\ currentQuestionIndex' = 0
          /\ userAnswers' = <<>> ]_vars

\* a quiz just entered with fewer questions than requested
C15_Witness ==
    /\ quizState = "quiz"
    /\ upload = <<>>
    /\ Len(questions) \in 1..(quizSettings.questionCount - 1)
    /\ currentQuestionIndex = 0
    /\ userAnswers = <<>>
    /\ currentAnswer = <<>>
    /\ shownId = questions[1].id

\* C16: at most one generation request is in flight: while isProcessing is set
\* no further upload is accepted, and isProcessing is set as long as a
\* generateQuestions call is pending.
C16_OneGenerationInFlight ==
    [][ /\ isProcessing => Len(upload') <= Len(upload)
        /\ Len(upload') <= 1
        /\ upload' # <<>> => isProcessing' ]_vars

\* an upload is pending on the upload page of a second session (a callback of
\* the first quiz is still pending) and the flag is set
C16_Witness ==
    /\ Len(upload) = 1
    /\ isProcessing
    /\ quizState = "upload"
    /\ timers # NoTimers

\* C17: for every text and every questionCount >= 1 the list returned by
\* generateQuestions is non-empty: the pipeline result is non-empty or the
\* simplified generator pads to questionCount.
C17_NeverEmpty == gpc = "applied" => Len(result) > 0

\* the pipeline returned nothing and the simplified generator found no sentence:
\* the whole result is padding
C17_Witness ==
    /\ gpc = "applied"
    /\ gtext # <<>>
    /\ Len(result) = gcount
    /\ \A i \in 1..Len(result) : result[i].kind = "simplefill"

\* the number of complexity-indicator matches in the text of an analyzed chunk
IndicatorMatches(a) ==
    SumSeq([j \in 1..Len(a.content.sents) |-> a.content.sents[j].ind])

\* C18: a chunk with s complexity-indicator matches is classified hard iff
\* s >= 3, medium iff 1 <= s <= 2 and easy iff s = 0.
C18_DifficultyThresholds ==
    \A i \in 1..Len(analyzed) :
        /\ analyzed[i].difficulty = "hard" <=> IndicatorMatches(analyzed[i]) >= 3
        /\ analyzed[i].difficulty = "medium" <=> IndicatorMatches(analyzed[i]) \in 1..2
        /\ analyzed[i].difficulty = "easy" <=> IndicatorMatches(analyzed[i]) = 0

\* the analyzer has classified a chunk with exactly 3 matches spread over
\* several sentences as hard and a chunk with exactly 1 match as medium
C18_Witness ==
    /\ \E i \in 1..Len(analyzed) :
          /\ IndicatorMatches(analyzed[i]) = 3
          /\ \A j \in 1..Len(analyzed[i].content.sents) : analyzed[i].content.sents[j].ind < 3
          /\ analyzed[i].difficulty = "hard"
    /\ \E i \in 1..Len(analyzed) :
          /\ IndicatorMatches(analyzed[i]) = 1
          /\ analyzed[i].difficulty = "medium"

\* C19: every item carries the difficulty of its chunk (an inference item is
\* hard), so for three plain sentences (no concepts, facts or key terms, zero
\* indicator matches) and questionCount = 5 the result is exactly 5 items, all
\* of difficulty easy, at least one of them a generic-fallback item.
C19_PlainTextAllEasy ==
    gpc = "applied" =>
        /\ \A i \in 1..Len(result) :
              result[i].kind = "inference" => result[i].difficulty = "hard"
        /\ (gtext = <<Plain, Plain, Plain>> /\ gcount = MinCount) =>
              /\ Len(result) = gcount
              /\ \A i \in 1..Len(result) : result[i].difficulty = "easy"
              /\ \E i \in 1..Len(result) : result[i].kind = "generic"

SameButDistractors(qs1, qs2) ==
    /\ Len(qs1) = Len(qs2)
    /\ \A i \in 1..Len(qs1) :
          /\ qs1[i].id = qs2[i].id
          /\ qs1[i].kind = qs2[i].kind
          /\ qs1[i].options[1] = qs2[i].options[1]
          /\ qs1[i].difficulty = qs2[i].difficulty

\* C21: two runs of generateQuestions on the same text and questionCount, with
\* whatever values Math.random() returns, give lists that agree in length and,
\* position by position, in id, question, correct option, explanation and
\* difficulty; only the distractors may differ.
C21_OnlyDistractorsVary ==
    gpc = "applied" =>
        \A seed \in SessionSeeds :
            SameButDistractors(result, generateQuestions(variant, gtext, gcount, seed))

\* a run whose list differs from the run in which Math.random() returns 0
C21_Witness ==
    /\ gpc = "applied"
    /\ Len(result) > 1
    /\ \E seed \in SessionSeeds : result # generateQuestions(variant, gtext, gcount, seed)

\* the counters of the per-chunk loop of generateFromChunks after its first k
\* iterations (an iteration whose loop condition is false changes nothing)
RECURSIVE AfterChunks(_, _, _, _)
StepChunk(an, q, i, seed, st) ==
    IF i < Len(an) /\ st.totalGenerated < q
    THEN chunkIteration(an, q, i, st.qs, st.questionId, st.totalGenerated,
             generateQuestionsFromChunk("firstN", an[i + 1], st.questionId,
                                        questionsToGenerate(Len(an), q, i), seed, st.c))
    ELSE st

AfterChunks(an, q, k, seed) ==
    IF k = 0
    THEN [qs |-> <<>>, questionId |-> 1, totalGenerated |-> 0, c |-> 0]
    ELSE StepChunk(an, q, k - 1, seed, AfterChunks(an, q, k - 1, seed))

\* the number of items chunk i (0-based) adds to the list
Contribution(an, q, i, seed) ==
    Len(AfterChunks(an, q, i + 1, seed).qs) - Len(AfterChunks(an, q, i, seed).qs)

\* the chunks of the applied text, analyzed
AnalyzedOf(v, text) == analyzeChunks(chunkDocument(v, text))

QuotaLaw(an, q, seed) ==
    /\ \A i \in 0..(Len(an) - 1) :
          Contribution(an, q, i, seed) =
              IF i < q % Min(Len(an), q) THEN q \div Min(Len(an), q) + 1
              ELSE IF i < Min(Len(an), q) THEN q \div Min(Len(an), q)
              ELSE 0
    /\ Len(AfterChunks(an, q, Len(an), seed).qs) = q
    /\ \A i, j \in 0..(Min(Len(an), q) - 1) :
          Contribution(an, q, i, seed) - Contribution(an, q, j, seed) \in {-1, 0, 1}

\* C22: with n >= 1 chunks, count q and m = min(n, q), chunk i contributes
\* floor(q/m) + 1 items if i < q mod m, floor(q/m) items if q mod m <= i < m
\* and none if i >= m; the contributions sum to q and two contributing chunks
\* differ by at most 1.
C22_ChunkQuotas ==
    (gpc = "applied" /\ variant = "firstN" /\ ~AnalysisThrows(chunkDocument(variant, gtext))
       /\ Len(chunkDocument(variant, gtext)) >= 1) =>
        /\ \A seed \in SessionSeeds : QuotaLaw(AnalyzedOf(variant, gtext), gcount, seed)
        /\ Len(result) = gcount

\* two chunks and 5 items, where the first chunk gives 3 and the second 2, or
\* two chunks and one item, where the second chunk gives none
C22_Witness ==
    /\ gpc = "applied" /\ variant = "firstN"
    /\ ~AnalysisThrows(chunkDocument(variant, gtext))
    /\ Len(chunkDocument(variant, gtext)) = 2
    /\ gcount \in {1, 5}
    /\ \A seed \in SessionSeeds :
          Contribution(AnalyzedOf(variant, gtext), gcount, 0, seed) = (IF gcount = 5 THEN 3 ELSE 1)
          /\ Contribution(AnalyzedOf(variant, gtext), gcount, 1, seed) = (IF gcount = 5 THEN 2 ELSE 0)
    /\ Len(result) = gcount

\* the kinds of item a chunk triggers, in the order of synthesis
TriggeredKinds(a) ==
    (IF a.concepts # <<>> THEN <<"concept">> ELSE <<>>)
    \o (IF a.facts # <<>> THEN <<"fact">> ELSE <<>>)
    \o (IF a.keyTerms # <<>> THEN <<"keyterm">> ELSE <<>>)
    \o (IF a.difficulty = "hard" THEN <<"inference">> ELSE <<>>)

\* the list qs has exactly k items with ids startId, startId + 1, ...: the
\* first k of the triggered kinds, then generic items
QuotaFilled(qs, a, startId, k) ==
    /\ Len(qs) = k
    /\ \A p \in 1..Len(qs) :
          /\ qs[p].id = startId + p - 1
          /\ qs[p].kind = IF p <= Len(TriggeredKinds(a)) THEN TriggeredKinds(a)[p]
                           ELSE "generic"

\* C23: for a chunk with quota k >= 1 synthesis returns exactly k items: a
\* concept item, a fact item, a key-term item and an inference item, each if
\* its trigger holds and fewer than k items exist, then generic items up to k.
C23_SynthesisFillsQuota ==
    variant = "firstN" =>
        \A i \in 1..Len(analyzed) : \A k \in 1..gcount : \A seed \in SessionSeeds :
            QuotaFilled(generateQuestionsFromChunk("firstN", analyzed[i], i, k, seed, 0).qs,
                        analyzed[i], i, k)

\* a run over one hard chunk without key terms whose 5 items are a concept, a
\* fact and an inference item followed by two generic items
C23_Witness ==
    /\ variant = "firstN"
    /\ gpc = "done"
    /\ Len(analyzed) = 1
    /\ TriggeredKinds(analyzed[1]) = <<"concept", "fact", "inference">>
    /\ QuotaFilled(result, analyzed[1], 1, 5)

DifficultyRank(d) == CASE d = "easy" -> 0 [] d = "medium" -> 1 [] d = "hard" -> 2

\* the quota the claim gives to a difficulty for requested count q
ClaimedQuota(d, q) ==
    IF d \in {"easy", "medium"} THEN (4 * q) \div 10 ELSE q - 2 * ((4 * q) \div 10)

CountOf(qs, d) == Cardinality({ i \in 1..Len(qs) : qs[i].difficulty = d })

\* `out` is a balanced selection from the synthesized list `syn` for count q
Balanced(out, syn, q) ==
    /\ Len(out) <= q
    /\ \A d \in {"easy", "medium", "hard"} : CountOf(out, d) <= ClaimedQuota(d, q)
    /\ \A i, j \in 1..Len(out) :
          i < j => /\ DifficultyRank(out[i].difficulty) <= DifficultyRank(out[j].difficulty)
                   /\ out[i].difficulty = out[j].difficulty => out[i].id < out[j].id
    /\ \A i \in 1..Len(out) : \E j \in 1..Len(syn) :
          syn[j].id = out[i].id /\ syn[j].kind = out[i].kind
          /\ syn[j].difficulty = out[i].difficulty
    /\ \A i \in 1..Len(out) : \A j \in 1..Len(syn) :
          (syn[j].difficulty = out[i].difficulty /\ syn[j].id < out[i].id)
             => \E k \in 1..Len(out) : out[k].id = syn[j].id

Retained(text) == SelectSeq(text, LAMBDA f : f.len > 20)

\* cs is, in order, the windows of up to w retained sentences starting at
\* sentence indices 0, s, 2s, ... whose joined length exceeds t
WindowsOf(cs, sentences, w, s, t) ==
    /\ \A k \in 1..Len(cs) :
          /\ cs[k].start \in 0..(Len(sentences) - 1)
          /\ cs[k].start % s = 0
          /\ cs[k].sents = Slice(sentences, cs[k].start, cs[k].start + w)
          /\ cs[k].length = JoinedLength(cs[k].sents)
          /\ cs[k].length > t
    /\ \A k \in 1..(Len(cs) - 1) : cs[k].start < cs[k + 1].start
    /\ \A i \in 0..(Len(sentences) - 1) :
          (i % s = 0 /\ JoinedLength(Slice(sentences, i, i + w)) > t)
             => \E k \in 1..Len(cs) : cs[k].start = i

\* two consecutive chunks share at least one sentence
ChunksOverlap(cs) ==
    \A k \in 1..(Len(cs) - 1) : cs[k + 1].start < cs[k].start + Len(cs[k].sents)

\* the chunks of the text the generator was applied to
ChunksOfText == chunkDocument(variant, gtext)

PerChunkLoop(an, q, seed) == chunkLoop(an, q, 0, <<>>, 1, 0, seed, 0).qs

\* the pipeline of the generator with per-chunk quotas returned (it did not throw)
FirstNReturned ==
    gpc = "applied" /\ variant = "firstN" /\ ~AnalysisThrows(ChunksOfText)

\* C26: in the generator with per-chunk quotas, with at least one chunk the
\* per-chunk loop yields exactly questionCount items and the random top-up,
\* the truncation and the filler padding change nothing; with no chunk all
\* questionCount items are the filler item, easy, with ids 1..questionCount.
C26_BalancingKeepsSynthesis ==
    FirstNReturned =>
        IF Len(ChunksOfText) >= 1
        THEN \A seed \in SessionSeeds :
               /\ Len(PerChunkLoop(AnalyzedOf(variant, gtext), gcount, seed)) = gcount
               /\ SameButDistractors(result,
                                     PerChunkLoop(AnalyzedOf(variant, gtext), gcount, seed))
               /\ "filler" \notin KindsOf(result)
        ELSE /\ Len(result) = gcount
             /\ \A i \in 1..Len(result) :
                   /\ result[i].kind = "filler"
                   /\ result[i].difficulty = "easy"
                   /\ result[i].id = i

\* two chunks and 5 items, all made by the per-chunk loop
C26_Witness ==
    /\ FirstNReturned
    /\ Len(ChunksOfText) = 2
    /\ gcount = 5
    /\ Len(result) = 5
    /\ "filler" \notin KindsOf(result)
    /\ "generic" \in KindsOf(result)

----------------------------------------------------------------------------
(* Submissions, pending callbacks and the way to results *)

\* C27: each presented question is submitted at most once, so at most one
\* advance or results callback is pending at any time and currentQuestionIndex
\* never moves twice for one question.
C27_SubmitOnce ==
    /\ [](timers.advance + timers.results <= 1)
    /\ [][ (timers'.advance + timers'.results > timers.advance + timers.results)
             => timers.advance + timers.results = 0 ]_vars

\* C28: after restart() no callback scheduled earlier is pending: quizState
\* stays upload with questions empty and currentQuestionIndex 0 until a later
\* generation succeeds, and quizState is quiz or results only while questions
\* is non-empty.
C28_NoStaleCallbacks ==
    /\ quizState = "upload" =>
          (timers = NoTimers /\ questions = <<>> /\ currentQuestionIndex = 0)
    /\ quizState \in {"quiz", "results"} => questions # <<>>

\* C29: whenever quizState is results, answers holds an entry for every index
\* 0..len(questions)-1: no question is skipped on the way to results.
C29_AllAnsweredAtResults ==
    quizState = "results" => \A i \in 0..(Len(questions) - 1) : i \in DOMAIN userAnswers

\* C30: in either mode, if the user answers (and in mode=immediate confirms)
\* every presented question and timers fire, the session reaches results;
\* the selection state is reset on each advance, so a presented question can
\* always be answered.
C30_QuizReachesResults == (quizState = "quiz") ~> (quizState = "results")

====
